---- MODULE Spec2Model ----
(***************************************************************************)
(* Browser front end of the SNS analysis tool: static/js/main.js (analysis *)
(* form page) and static/js/dashboard.js (dashboard page).                 *)
(*                                                                         *)
(* Conventions of the model                                                *)
(*   - a JavaScript number x is the natural 1000 * x (thousandths), so     *)
(*     that 4.567 is 4567 and the count 25 is 25000;                       *)
(*   - a value that may be undefined / null is an option: << >> when it is *)
(*     absent and << v >> when it is present;                              *)
(*   - a string built by the code is the sequence of its characters.      *)
(***************************************************************************)
EXTENDS Integers, Sequences, FiniteSets, TLC

VARIABLES
    page,                 \* which page the browser has loaded
    ready,                \* dashboard.js: DOMContentLoaded has run
    loading,              \* #loading style.display
    resultsSection,       \* #resultsSection style.display
    textContent,          \* the four stat elements of the form page
    engagementChart,      \* main.js global
    timingChart,          \* main.js / dashboard.js global
    currentAnalysisData,  \* window.currentAnalysisData
    inFlight,             \* handleFormSubmit invocations awaiting fetch
    sheetsInFlight,       \* exportToGoogleSheets invocations awaiting fetch
    currentData,          \* dashboard.js global
    mainChart,            \* dashboard.js global
    metricCards,          \* .metric-card .metric-value texts
    dataTable,            \* rows of #dataTableBody
    event,                \* the handler step that ran last, with its input
    alerts,               \* alert() calls of the last step, in order
    sent,                 \* fetch() request issued by the last step
    download,             \* file handed to the browser by the last step
    opened                \* window.open() target of the last step

vars == <<page, ready, loading, resultsSection, textContent, engagementChart,
          timingChart, currentAnalysisData, inFlight, sheetsInFlight,
          currentData, mainChart, metricCards, dataTable, event, alerts,
          sent,
          download, opened>>

(***************************************************************************)
(* Values                                                                  *)
(***************************************************************************)
Null == << >>

Some(v) == << v >>

\* a JSON / JavaScript value of a stats field
Undefined == [t |-> "undefined", n |-> 0]

Num(x) == [t |-> "number", n |-> x]

Str == [t |-> "string", n |-> 0]

\* JavaScript truthiness of a stats field: undefined and 0 are falsy, a
\* non-empty string is truthy
Truthy(v) == \/ v.t = "string"
             \/ v.t = "number" /\ v.n # 0

(***************************************************************************)
(* Number to text                                                          *)
(***************************************************************************)
Digit(d) == CASE d = 0 -> "0" [] d = 1 -> "1" [] d = 2 -> "2" [] d = 3 -> "3"
              [] d = 4 -> "4" [] d = 5 -> "5" [] d = 6 -> "6" [] d = 7 -> "7"
              [] d = 8 -> "8" [] d = 9 -> "9"

RECURSIVE NatDigits(_)
NatDigits(k) == IF k < 10 THEN << Digit(k) >>
                ELSE NatDigits(k \div 10) \o << Digit(k % 10) >>

\* k written with exactly w digits (leading zeros kept)
RECURSIVE PadDigits(_, _)
PadDigits(k, w) == IF w = 0 THEN << >>
                   ELSE PadDigits(k \div 10, w - 1) \o << Digit(k % 10) >>

RECURSIVE StripZeros(_)
StripZeros(s) == IF s # << >> /\ s[Len(s)] = "0"
                 THEN StripZeros(SubSeq(s, 1, Len(s) - 1))
                 ELSE s

\* Number.prototype.toString of the number x / 1000
NumToString(x) ==
    IF x % 1000 = 0 THEN NatDigits(x \div 1000)
    ELSE NatDigits(x \div 1000) \o << "." >> \o StripZeros(PadDigits(x % 1000, 3))

Pow10(d) == IF d = 1 THEN 10 ELSE 100

\* (x / 1000 / div).toFixed(d), d in 1..2: nearest multiple of 10^-d
ToFixedOf(x, div, d) ==
    LET unit == (1000 \div Pow10(d)) * div
        q    == (x + unit \div 2) \div unit
    IN  NatDigits(q \div Pow10(d)) \o << "." >> \o PadDigits(q % Pow10(d), d)

toFixed(x, d) == ToFixedOf(x, 1, d)

\* template literal `${v}` of a stats field
Template(v) == CASE v.t = "number" -> NumToString(v.n)
                 [] v.t = "string" -> << "s" >>
                 [] OTHER -> << "u", "n", "d", "e", "f", "i", "n", "e", "d" >>


\* main.js formatNumber, applied to a stats field that is not undefined
formatNumber(num) ==
    IF num.t = "number" /\ num.n >= 1000000 * 1000
    THEN ToFixedOf(num.n, 1000000, 1) \o << "M" >>
    ELSE IF num.t = "number" /\ num.n >= 1000 * 1000
    THEN ToFixedOf(num.n, 1000, 1) \o << "K" >>
    ELSE Template(num)

\* v || 0
OrZero(v) == IF Truthy(v) THEN v ELSE Num(0)

(***************************************************************************)
(* Inputs: the form, and the bodies /api/analyze answers with              *)
(***************************************************************************)
\* the filled-in form, and the form with one or two of its fields left empty
FilledForm == [platform |-> "instagram", username |-> "acct", period |-> "30",
               analysis_types |-> << "engagement", "timing" >>]

Forms == { FilledForm,
           [FilledForm EXCEPT !.platform = ""],
           [FilledForm EXCEPT !.username = ""],
           [FilledForm EXCEPT !.period = ""],
           [FilledForm EXCEPT !.analysis_types = << >>],
           [FilledForm EXCEPT !.period = "", !.analysis_types = << >>] }

MkStats(tp, avg, imp, fol, lik, com) ==
    [total_posts |-> tp, avg_engagement |-> avg, total_impressions |-> imp,
     follower_count |-> fol, total_likes |-> lik, total_comments |-> com]

\* nothing computed; everything computed as zero; a busy account; a small
\* account with a whole-number rate and no impressions or likes
StatsProfiles ==
    { MkStats(Undefined, Undefined, Undefined, Undefined, Undefined, Undefined),
      MkStats(Num(0), Num(0), Num(0), Num(0), Num(0), Num(0)),
      MkStats(Num(25000), Num(4567), Num(15400000), Num(1230000000),
              Num(340000), Num(56000)),
      MkStats(Num(3000), Num(5000), Undefined, Num(820000), Undefined,
              Num(7000)) }

\* engagement_data: {labels, values}, one point per day
EngagementSeries ==
    { [labels |-> << "05-01", "05-02", "05-03" >>,
       values |-> << 2500, 0, 12346 >>] }

\* timing_data: {labels, values}; a label is the hour of its "HH:00" bucket
\* and a value is that hour's post count.  The backend hands the histogram
\* over whole, sorted by descending count, ties by ascending hour.
TimingHistograms ==
    { [labels |-> << 9, 18, 12, 20, 8, 21, 7, 6, 13, 22 >>,
       values |-> << 12, 12, 9, 7, 5, 5, 3, 2, 2, 1 >>] }

\* a response body whose stats are well formed
WellFormed ==
    [stats : {Some(s) : s \in StatsProfiles},
     engagement_data : {Null} \cup {Some(e) : e \in EngagementSeries},
     timing_data : {Null} \cup {Some(h) : h \in TimingHistograms}]

\* bodies on which displayResults throws: no stats object at all, and a
\* rate that arrives as a string (toFixed is not a function)
Malformed ==
    { [stats |-> Null, engagement_data |-> Null, timing_data |-> Null],
      [stats |-> Some(MkStats(Num(12000), Str, Num(900000), Num(40000),
                              Num(5000), Num(1000))),
       engagement_data |-> Null, timing_data |-> Null] }

Results == WellFormed \cup Malformed


(***************************************************************************)
(* The step record and the initial state                                   *)
(***************************************************************************)
Event(op, form, outcome, result) ==
    [op |-> op, form |-> form, outcome |-> outcome, result |-> result]

Quiet == /\ alerts' = << >>
         /\ sent' = Null
         /\ download' = Null
         /\ opened' = Null

mainVars == <<loading, resultsSection, textContent, engagementChart,
              currentAnalysisData, inFlight, sheetsInFlight>>

dashVars == <<ready, currentData, mainChart, metricCards, dataTable>>

Dash == << "-" >>

\* Either page, as its script finds it: the globals are null, nothing is in
\* flight, the loading indicator and the results section are hidden and the
\* stat elements hold their placeholder.
Init ==
    /\ page \in {"index", "dashboard"}
    /\ ready = FALSE
    /\ loading = "none"
    /\ resultsSection = "none"
    /\ textContent = [totalPosts |-> Dash, avgEngagement |-> Dash,
                      totalImpressions |-> Dash, followerCount |-> Dash]
    /\ engagementChart = Null
    /\ timingChart = Null
    /\ currentAnalysisData = Null
    /\ inFlight = 0
    /\ sheetsInFlight = 0
    /\ currentData = Null
    /\ mainChart = Null
    /\ metricCards = Null
    /\ dataTable = << >>
    /\ event = Event("load", Null, "", Null)
    /\ alerts = << >>
    /\ sent = Null
    /\ download = Null
    /\ opened = Null

(***************************************************************************)
(* main.js: handleFormSubmit up to its await                               *)
(***************************************************************************)
MaxInFlight == 2

\* the check with the period forgotten
MissingRequiredButPeriod(data) == data.platform = "" \/ data.username = ""

\* !data.platform || !data.username || !data.period
MissingRequired(data) ==
    data.platform = "" \/ data.username = "" \/ data.period = ""

NoAnalysisTypes(data) == Len(data.analysis_types) = 0

HandleFormSubmit(data) ==
    /\ page = "index"
    /\ event' = Event("submit", Some(data), "", Null)
    /\ IF MissingRequired(data)
       THEN /\ alerts' = << "required_fields" >>
            /\ sent' = Null
            /\ UNCHANGED <<loading, resultsSection, inFlight>>
       ELSE IF NoAnalysisTypes(data)
       THEN /\ alerts' = << "analysis_types" >>
            /\ sent' = Null
            /\ UNCHANGED <<loading, resultsSection, inFlight>>
       ELSE /\ inFlight < MaxInFlight
            \* showLoading
            /\ loading' = "block"
            /\ resultsSection' = "none"
            /\ alerts' = << >>
            /\ sent' = Some([url |-> "/api/analyze", body |-> Some(data)])
            /\ inFlight' = inFlight + 1
    /\ download' = Null
    /\ opened' = Null
    /\ UNCHANGED <<textContent, engagementChart, timingChart,
                   currentAnalysisData, sheetsInFlight>>
    /\ UNCHANGED dashVars
    /\ UNCHANGED page


(***************************************************************************)
(* main.js: displayResults and the charts                                  *)
(***************************************************************************)
createEngagementChart(data) ==
    [type |-> "line", labels |-> data.labels, data |-> data.values]

createTimingChart(data) ==
    [type |-> "bar", labels |-> data.labels, data |-> data.values]

\* data.stats.total_posts || '-'
TotalPostsText(v) == IF Truthy(v) THEN Template(v) ELSE Dash

\* data.stats.avg_engagement ? `${...toFixed(2)}%` : '-'
AvgEngagementText(v) == IF Truthy(v) THEN toFixed(v.n, 2) \o << "%" >> ELSE Dash

\* data.stats.x ? formatNumber(data.stats.x) : '-'
FormattedText(v) == IF Truthy(v) THEN formatNumber(v) ELSE Dash

\* where displayResults throws on this body: reading data.stats.total_posts
\* of a missing stats object, or calling toFixed on a string
ThrowsAt(data) ==
    IF data.stats = Null THEN "stats"
    ELSE IF data.stats[1].avg_engagement.t = "string" THEN "toFixed"
    ELSE "nowhere"

\* displayResults(data) run on the current page state: what it leaves
\* behind, up to the statement that throws if one does
DisplayResults(data) ==
    LET at == ThrowsAt(data)
        st == data.stats[1]
    IN  IF at = "stats"
        THEN [threw |-> TRUE, textContent |-> textContent,
              engagementChart |-> engagementChart, timingChart |-> timingChart,
              currentAnalysisData |-> currentAnalysisData,
              resultsSection |-> resultsSection]
        ELSE IF at = "toFixed"
        THEN [threw |-> TRUE,
              textContent |->
                  [textContent EXCEPT !.totalPosts = TotalPostsText(st.total_posts)],
              engagementChart |-> engagementChart, timingChart |-> timingChart,
              currentAnalysisData |-> currentAnalysisData,
              resultsSection |-> resultsSection]
        ELSE [threw |-> FALSE,
              textContent |->
                  [totalPosts |-> TotalPostsText(st.total_posts),
                   avgEngagement |-> AvgEngagementText(st.avg_engagement),
                   totalImpressions |-> FormattedText(st.total_impressions),
                   followerCount |-> FormattedText(st.follower_count)],
              engagementChart |->
                  IF data.engagement_data # Null
                  THEN Some(createEngagementChart(data.engagement_data[1]))
                  ELSE engagementChart,
              timingChart |->
                  IF data.timing_data # Null
                  THEN Some(createTimingChart(data.timing_data[1]))
                  ELSE timingChart,
              currentAnalysisData |-> Some(data),
              resultsSection |-> "block"]

(***************************************************************************)
(* main.js: handleFormSubmit after its await                               *)
(***************************************************************************)
\* fetch rejects, response.ok is false, response.json() rejects
FetchFailures == {"rejected", "http_error", "bad_json"}

AnalyzeFailed(outcome) ==
    /\ page = "index"
    /\ inFlight > 0
    /\ event' = Event("analyzeSettled", Null, outcome, Null)
    /\ alerts' = << "analysis_error" >>
    \* hideLoading
    /\ loading' = "none"
    /\ inFlight' = inFlight - 1
    /\ sent' = Null
    /\ download' = Null
    /\ opened' = Null
    /\ UNCHANGED <<resultsSection, textContent, engagementChart, timingChart,
                   currentAnalysisData, sheetsInFlight>>
    /\ UNCHANGED dashVars
    /\ UNCHANGED page

AnalyzeResponded(result) ==
    /\ page = "index"
    /\ inFlight > 0
    /\ LET d == DisplayResults(result)
       IN  /\ event' = Event("analyzeSettled", Null,
                             IF d.threw THEN "display_threw" ELSE "ok",
                             Some(result))
           /\ alerts' = IF d.threw THEN << "analysis_error" >> ELSE << >>
           /\ textContent' = d.textContent
           /\ engagementChart' = d.engagementChart
           /\ timingChart' = d.timingChart
           /\ currentAnalysisData' = d.currentAnalysisData
           /\ resultsSection' = d.resultsSection
    \* hideLoading
    /\ loading' = "none"
    /\ inFlight' = inFlight - 1
    /\ sent' = Null
    /\ download' = Null
    /\ opened' = Null
    /\ UNCHANGED sheetsInFlight
    /\ UNCHANGED dashVars
    /\ UNCHANGED page

(***************************************************************************)
(* main.js: exportToCSV                                                    *)
(*   a file is its lines; a line is its cells; a cell is its characters,  *)
(*   a fixed label being written as one token:                            *)
(*     type_header    データ種別        value_header   値                  *)
(*     total_posts    総投稿数          avg_engagement 平均エンゲージメント率 *)
(*     total_impressions 総インプレッション   follower_count フォロワー数      *)
(*     date_header    日付             rate_header    エンゲージメント率    *)
(***************************************************************************)
Line(label, value) == << << label >>, value >>

BlankLine == << >>

\* `${values[i]}` of a series value; undefined past the end of values
SeriesValueText(values, i) ==
    IF i <= Len(values) THEN NumToString(values[i])
    ELSE Template(Undefined)

\* the stats rows with followers written before impressions
CsvLinesReordered(data) ==
    LET st == data.stats[1]
    IN  << Line("type_header", << "value_header" >>),
           Line("total_posts", Template(OrZero(st.total_posts))),
           Line("avg_engagement",
                Template(OrZero(st.avg_engagement)) \o << "%" >>),
           Line("follower_count", Template(OrZero(st.follower_count))),
           Line("total_impressions", Template(OrZero(st.total_impressions))) >>
        \o
        IF data.engagement_data # Null
        THEN LET e == data.engagement_data[1]
             IN  << BlankLine, Line("date_header", << "rate_header" >>) >>
                 \o [i \in 1..Len(e.labels) |->
                        Line(e.labels[i], SeriesValueText(e.values, i))]
        ELSE << >>

CsvLines(data) ==
    LET st == data.stats[1]
    IN  << Line("type_header", << "value_header" >>),
           Line("total_posts", Template(OrZero(st.total_posts))),
           Line("avg_engagement",
                Template(OrZero(st.avg_engagement)) \o << "%" >>),
           Line("total_impressions", Template(OrZero(st.total_impressions))),
           Line("follower_count", Template(OrZero(st.follower_count))) >>
        \o
        IF data.engagement_data # Null
        THEN LET e == data.engagement_data[1]
             IN  << BlankLine, Line("date_header", << "rate_header" >>) >>
                 \o [i \in 1..Len(e.labels) |->
                        Line(e.labels[i], SeriesValueText(e.values, i))]
        ELSE << >>

\* the export reading the series with shift(), which empties the stored arrays
ExportToCSVShifting ==
    /\ page = "index"
    /\ event' = Event("exportToCSV", Null, "", Null)
    /\ IF currentAnalysisData = Null
       THEN /\ alerts' = << "no_data" >>
            /\ download' = Null
            /\ UNCHANGED currentAnalysisData
       ELSE /\ alerts' = << >>
            /\ download' = Some([name |-> "sns_analysis",
                                 lines |-> CsvLines(currentAnalysisData[1])])
            /\ currentAnalysisData' =
                   IF currentAnalysisData[1].engagement_data = Null
                   THEN currentAnalysisData
                   ELSE Some([currentAnalysisData[1] EXCEPT !.engagement_data =
                                 Some([labels |-> << >>, values |-> << >>])])
    /\ sent' = Null
    /\ opened' = Null
    /\ UNCHANGED <<loading, resultsSection, textContent, engagementChart,
                   timingChart, inFlight, sheetsInFlight>>
    /\ UNCHANGED dashVars
    /\ UNCHANGED page

ExportToCSV ==
    /\ page = "index"
    /\ event' = Event("exportToCSV", Null, "", Null)
    /\ IF currentAnalysisData = Null
       THEN /\ alerts' = << "no_data" >>
            /\ download' = Null
       ELSE /\ alerts' = << >>
            /\ download' = Some([name |-> "sns_analysis",
                                 lines |-> CsvLines(currentAnalysisData[1])])
    /\ sent' = Null
    /\ opened' = Null
    /\ UNCHANGED <<mainVars, timingChart>>
    /\ UNCHANGED dashVars
    /\ UNCHANGED page


(***************************************************************************)
(* main.js: exportToGoogleSheets                                           *)
(***************************************************************************)
\* what the fetch of /api/export/sheets settles with: a rejection, or a
\* response with its ok flag and a body that parses or not; a parsed body
\* may carry success (true, false, or not at all)
SheetsResponse(fetch, ok, json, success) ==
    [fetch |-> fetch, ok |-> ok, json |-> json, success |-> success,
     sheet_url |-> "https://sheets/1"]

SheetsResponses ==
    { SheetsResponse("rejected", FALSE, "unparseable", Null),
      SheetsResponse("resolved", FALSE, "object", Some(TRUE)),
      SheetsResponse("resolved", TRUE, "unparseable", Null),
      SheetsResponse("resolved", TRUE, "object", Null),
      SheetsResponse("resolved", TRUE, "object", Some(FALSE)),
      SheetsResponse("resolved", TRUE, "object", Some(TRUE)) }

\* the export without its check for a stored result
ExportToGoogleSheetsUnchecked ==
    /\ page = "index"
    /\ event' = Event("exportToGoogleSheets", Null, "", Null)
    /\ sheetsInFlight < MaxInFlight
    /\ alerts' = << >>
    /\ sent' = Some([url |-> "/api/export/sheets", body |-> currentAnalysisData])
    /\ sheetsInFlight' = sheetsInFlight + 1
    /\ download' = Null
    /\ opened' = Null
    /\ UNCHANGED <<loading, resultsSection, textContent, engagementChart,
                   timingChart, currentAnalysisData, inFlight>>
    /\ UNCHANGED dashVars
    /\ UNCHANGED page

ExportToGoogleSheets ==
    /\ page = "index"
    /\ event' = Event("exportToGoogleSheets", Null, "", Null)
    /\ IF currentAnalysisData = Null
       THEN /\ alerts' = << "no_data" >>
            /\ sent' = Null
            /\ UNCHANGED sheetsInFlight
       ELSE /\ sheetsInFlight < MaxInFlight
            /\ alerts' = << >>
            /\ sent' = Some([url |-> "/api/export/sheets",
                             body |-> currentAnalysisData])
            /\ sheetsInFlight' = sheetsInFlight + 1
    /\ download' = Null
    /\ opened' = Null
    /\ UNCHANGED <<loading, resultsSection, textContent, engagementChart,
                   timingChart, currentAnalysisData, inFlight>>
    /\ UNCHANGED dashVars
    /\ UNCHANGED page

\* the try block without its response.ok check
SheetsCompletionIgnoringStatus(resp) ==
    IF resp.fetch = "rejected" THEN [alerts |-> << "sheets_error" >>, opened |-> Null]
    ELSE IF resp.json = "unparseable"
    THEN [alerts |-> << "sheets_error" >>, opened |-> Null]
    ELSE IF resp.success = Some(TRUE)
    THEN [alerts |-> << "sheets_saved" >>, opened |-> Some(resp.sheet_url)]
    ELSE [alerts |-> << "sheets_error" >>, opened |-> Null]

\* the try block after the await: the alerts it raises and the URL it opens
SheetsCompletion(resp) ==
    IF resp.fetch = "rejected" THEN [alerts |-> << "sheets_error" >>, opened |-> Null]
    ELSE IF ~resp.ok THEN [alerts |-> << "sheets_error" >>, opened |-> Null]
    ELSE IF resp.json = "unparseable"
    THEN [alerts |-> << "sheets_error" >>, opened |-> Null]
    ELSE IF resp.success = Some(TRUE)
    THEN [alerts |-> << "sheets_saved" >>, opened |-> Some(resp.sheet_url)]
    ELSE [alerts |-> << "sheets_error" >>, opened |-> Null]

SheetsSettled(resp) ==
    /\ page = "index"
    /\ sheetsInFlight > 0
    /\ event' = [op |-> "sheetsSettled", form |-> Null,
                 outcome |-> "", result |-> Some(resp)]
    /\ alerts' = SheetsCompletion(resp).alerts
    /\ opened' = SheetsCompletion(resp).opened
    /\ sheetsInFlight' = sheetsInFlight - 1
    /\ sent' = Null
    /\ download' = Null
    /\ UNCHANGED <<loading, resultsSection, textContent, engagementChart,
                   timingChart, currentAnalysisData, inFlight>>
    /\ UNCHANGED dashVars
    /\ UNCHANGED page

(***************************************************************************)
(* dashboard.js                                                            *)
(***************************************************************************)
\* window.analysisData as the template leaves it: nothing, or a result
DashboardInputs == {Null} \cup {Some(r) : r \in WellFormed}

\* dashboard.js formatNumber
formatNumberDashboard(num) ==
    IF num.n >= 1000000 * 1000 THEN ToFixedOf(num.n, 1000000, 1) \o << "M" >>
    ELSE IF num.n >= 1000 * 1000 THEN ToFixedOf(num.n, 1000, 1) \o << "K" >>
    ELSE Template(num)

\* (a + b) || 0: the sum is NaN unless both are numbers
SumOrZero(a, b) ==
    IF a.t = "number" /\ b.t = "number" THEN OrZero(Num(a.n + b.n)) ELSE Num(0)

\* Math.round(x * 10)
RoundTimesTen(v) == Num(((v.n * 10 + 500) \div 1000) * 1000)

updateMetricsCards(data) ==
    LET stats == data.stats[1]
    IN  [posts |-> formatNumberDashboard(OrZero(stats.total_posts)),
         engagement |->
             formatNumberDashboard(SumOrZero(stats.total_likes, stats.total_comments)),
         clicks |-> formatNumberDashboard(OrZero(stats.total_comments)),
         cost |-> formatNumberDashboard(RoundTimesTen(OrZero(stats.avg_engagement)))]

TopHours == 8

\* s.slice(0, n)
Slice(s, n) == SubSeq(s, 1, IF Len(s) < n THEN Len(s) ELSE n)

createMainChart(data) ==
    IF data.engagement_data = Null THEN mainChart
    ELSE Some([type |-> "line", labels |-> data.engagement_data[1].labels,
               data |-> data.engagement_data[1].values])

createTimingChartDashboard(data) ==
    IF data.timing_data = Null THEN timingChart
    ELSE Some([type |-> "doughnut",
               labels |-> Slice(data.timing_data[1].labels, TopHours),
               data |-> Slice(data.timing_data[1].values, TopHours)])

\* Math.random() yields 0.2 or 0.9
RandomDraws == {200, 900}

\* the sample posts: the model keeps the first of the ten titles, and the
\* loop of generatePostData runs over the titles kept
sampleTitles == << "product targeting" >>

\* Math.floor(r * k) + base, as a number
FloorScaled(r, k, base) == Num((((r * k) \div 1000) + base) * 1000)

\* one post of generatePostData, from the six draws it makes in order; date
\* is kept as the hours before now that the fifth draw gives
GeneratedPost(i, r) ==
    [id |-> i,
     title |-> sampleTitles[i],
     status |-> IF r[1] > 300 THEN "active" ELSE "paused",
     engagement |-> FloorScaled(r[2], 1000, 100),
     likes |-> FloorScaled(r[3], 500, 50),
     comments |-> FloorScaled(r[4], 100, 10),
     date |-> (r[5] * 7 * 24) \div 1000,
     performance |-> FloorScaled(r[6], 100, 20)]

\* the <tr> populateDataTable builds for a post
TableRow(post) ==
    [id |-> post.id, title |-> post.title, status |-> post.status,
     engagement |-> formatNumberDashboard(post.engagement),
     likes |-> formatNumberDashboard(post.likes),
     comments |-> formatNumberDashboard(post.comments),
     date |-> post.date,
     performance |-> Template(post.performance) \o << "%" >>,
     display |-> ""]

PostDraws == [1..Len(sampleTitles) -> [1..6 -> RandomDraws]]

DashboardLoaded(analysisData, draws) ==
    /\ page = "dashboard"
    /\ ~ready
    /\ ready' = TRUE
    /\ event' = Event("DOMContentLoaded", Null, "", analysisData)
    /\ IF analysisData # Null
       THEN /\ currentData' = analysisData
            /\ metricCards' = Some(updateMetricsCards(analysisData[1]))
            /\ dataTable' = [i \in 1..Len(sampleTitles) |->
                                TableRow(GeneratedPost(i, draws[i]))]
            /\ mainChart' = createMainChart(analysisData[1])
            /\ timingChart' = createTimingChartDashboard(analysisData[1])
       ELSE UNCHANGED <<currentData, metricCards, dataTable, mainChart,
                        timingChart>>
    /\ Quiet
    /\ UNCHANGED mainVars
    /\ UNCHANGED page

\* `${values[i] || 0}`
SeriesValueOrZero(values, i) ==
    IF i <= Len(values) /\ values[i] # 0 THEN NumToString(values[i])
    ELSE << "0" >>

\*   metric_header メトリック   total_likes 総いいね数   total_comments 総コメント数
\*   avg_engagement 平均エンゲージメント   engagement_header エンゲージメント
DashboardCsvLines(data) ==
    LET st == data.stats[1]
    IN  << Line("metric_header", << "value_header" >>),
           Line("total_posts", Template(OrZero(st.total_posts))),
           Line("total_likes", Template(OrZero(st.total_likes))),
           Line("total_comments", Template(OrZero(st.total_comments))),
           Line("avg_engagement", Template(OrZero(st.avg_engagement))) >>
        \o
        IF data.engagement_data # Null
        THEN LET e == data.engagement_data[1]
             IN  << BlankLine, Line("date_header", << "engagement_header" >>) >>
                 \o [i \in 1..Len(e.labels) |->
                        Line(e.labels[i], SeriesValueOrZero(e.values, i))]
        ELSE << >>

ExportData ==
    /\ page = "dashboard"
    /\ ready
    /\ event' = Event("exportData", Null, "", Null)
    /\ IF currentData = Null
       THEN /\ alerts' = << "no_data" >>
            /\ download' = Null
       ELSE /\ alerts' = << >>
            /\ download' = Some([name |-> "sns_analysis_dashboard",
                                 lines |-> DashboardCsvLines(currentData[1])])
    /\ sent' = Null
    /\ opened' = Null
    /\ UNCHANGED <<mainVars, timingChart>>
    /\ UNCHANGED dashVars
    /\ UNCHANGED page

\* what the search box holds, and whether a title includes it
SearchTerms == {"", "target", "sale"}

Includes(title, term) ==
    \/ term = ""
    \/ title = "product targeting" /\ term = "target"

StatusFilters == {"", "active", "paused"}

FilterTable(searchTerm, statusFilter) ==
    /\ page = "dashboard"
    /\ ready
    /\ event' = Event("filterTable", Null, "", Null)
    /\ dataTable' =
           [i \in 1..Len(dataTable) |->
               [dataTable[i] EXCEPT !.display =
                   IF /\ Includes(dataTable[i].title, searchTerm)
                      /\ (statusFilter = "" \/ dataTable[i].status = statusFilter)
                   THEN "" ELSE "none"]]
    /\ Quiet
    /\ UNCHANGED <<ready, currentData, mainChart, metricCards>>
    /\ UNCHANGED <<mainVars, timingChart>>
    /\ UNCHANGED page

ChartPeriods == {"7d", "30d"}

\* mainChart.update() redraws the chart from the data it already holds
UpdateChartPeriod(period) ==
    /\ page = "dashboard"
    /\ ready
    /\ event' = Event("updateChartPeriod", Null, period, Null)
    /\ Quiet
    /\ UNCHANGED <<mainVars, timingChart>>
    /\ UNCHANGED dashVars
    /\ UNCHANGED page

\* window.location.reload(): the page and its script start over
RefreshData ==
    /\ page = "dashboard"
    /\ ready
    /\ ready' = FALSE
    /\ currentData' = Null
    /\ mainChart' = Null
    /\ timingChart' = Null
    /\ metricCards' = Null
    /\ dataTable' = << >>
    /\ event' = Event("load", Null, "", Null)
    /\ Quiet
    /\ UNCHANGED mainVars
    /\ UNCHANGED page

(***************************************************************************)
(* The two pages                                                           *)
(***************************************************************************)
Next ==
    \/ \E data \in Forms : HandleFormSubmit(data)
    \/ \E outcome \in FetchFailures : AnalyzeFailed(outcome)
    \/ \E result \in Results : AnalyzeResponded(result)
    \/ ExportToCSV
    \/ ExportToGoogleSheets
    \/ \E resp \in SheetsResponses : SheetsSettled(resp)
    \/ \E analysisData \in DashboardInputs, draws \in PostDraws :
           DashboardLoaded(analysisData, draws)
    \/ \E searchTerm \in SearchTerms, statusFilter \in StatusFilters :
           FilterTable(searchTerm, statusFilter)
    \/ ExportData
    \/ \E period \in ChartPeriods : UpdateChartPeriod(period)
    \/ RefreshData

Spec == Init /\ [][Next]_vars


(***************************************************************************)
(* Properties                                                              *)
(***************************************************************************)
\* a form with one of its four inputs missing or empty
Incomplete(f) == \/ f.platform = ""
                 \/ f.username = ""
                 \/ f.period = ""
                 \/ f.analysis_types = << >>

\* C1: a submission with platform, username or period missing, or with no
\* analysis type, raises an alert and does nothing else: no request, the
\* loading indicator, the displayed results and the stored result stay as
\* they were; and an /api/analyze request carries a complete form.
C1_InvalidSubmitRejected ==
    [][ /\ (event'.op = "submit" /\ Incomplete(event'.form[1]))
           => /\ alerts' # << >>
              /\ sent' = Null
              /\ UNCHANGED <<loading, resultsSection, textContent,
                             engagementChart, timingChart,
                             currentAnalysisData, inFlight>>
        /\ (sent' # Null /\ sent'[1].url = "/api/analyze")
           => /\ event'.op = "submit"
              /\ sent'[1].body = event'.form
              /\ ~Incomplete(event'.form[1]) ]_vars

\* an incomplete form was submitted while results were on display
C1_Witness ==
    /\ event.op = "submit"
    /\ Incomplete(event.form[1])
    /\ alerts # << >>
    /\ currentAnalysisData # Null
    /\ resultsSection = "block"

\* C2: an export with no stored result alerts and produces neither a file
\* nor a request; a file or a sheets request exists only with a stored result.
C2_NoExportBeforeResult ==
    /\ (event.op \in {"exportToCSV", "exportToGoogleSheets"}
           /\ currentAnalysisData = Null)
       => (alerts = << "no_data" >> /\ download = Null /\ sent = Null)
    /\ (event.op = "exportData" /\ currentData = Null)
       => (alerts = << "no_data" >> /\ download = Null /\ sent = Null)
    /\ (download # Null /\ page = "index") => currentAnalysisData # Null
    /\ (download # Null /\ page = "dashboard") => currentData # Null
    /\ (sent # Null /\ sent[1].url = "/api/export/sheets")
       => (currentAnalysisData # Null /\ sent[1].body = currentAnalysisData)

\* an export was tried before any analysis, and refused
C2_Witness ==
    /\ event.op = "exportToGoogleSheets"
    /\ currentAnalysisData = Null
    /\ alerts = << "no_data" >>


\* the first cell of each line of a file, "" for a blank line
RowLabels(lines) ==
    [i \in 1..Len(lines) |-> IF lines[i] = << >> THEN "" ELSE lines[i][1][1]]

\* the result the export of the last step was made from
Exported == IF page = "index" THEN currentAnalysisData[1] ELSE currentData[1]

SeriesLabels(data) ==
    IF data.engagement_data = Null THEN << >>
    ELSE data.engagement_data[1].labels

\* C3 as stated: after the header, the six stats in the order total posts,
\* average engagement rate, total impressions, followers, total likes, total
\* comments, then one blank row, then one row per series point, nothing else.
C3_SixStatsThenSeries ==
    download # Null
    => RowLabels(Tail(download[1].lines))
         = << "total_posts", "avg_engagement", "total_impressions",
              "follower_count", "total_likes", "total_comments", "" >>
           \o SeriesLabels(Exported)

\* C3 amended: exportToCSV writes its header, then total posts, average
\* engagement rate, total impressions, followers; exportData writes its
\* header, then total posts, total likes, total comments, average
\* engagement; and either, only when the result has engagement_data, goes on
\* with one blank row, one column-header row and one row per series point in
\* the order of the series.
C3_RowOrder ==
    download # Null
    => RowLabels(download[1].lines)
         = (IF page = "index"
            THEN << "type_header", "total_posts", "avg_engagement",
                    "total_impressions", "follower_count" >>
            ELSE << "metric_header", "total_posts", "total_likes",
                    "total_comments", "avg_engagement" >>)
           \o (IF Exported.engagement_data = Null THEN << >>
               ELSE << "", "date_header" >> \o SeriesLabels(Exported))

\* exportToCSV wrote a file for a result that has an engagement series
C3_Witness ==
    /\ event.op = "exportToCSV"
    /\ download # Null
    /\ currentAnalysisData[1].engagement_data # Null
    /\ Len(download[1].lines) = 10

IsDigit(c) == c \in {"0", "1", "2", "3", "4", "5", "6", "7", "8", "9"}

\* digits only
IsPlainInteger(text) ==
    /\ text # << >>
    /\ \A i \in 1..Len(text) : IsDigit(text[i])

\* digits, a point, two digits, a percent sign
IsPercentage(text) ==
    /\ Len(text) >= 5
    /\ text[Len(text)] = "%"
    /\ text[Len(text) - 3] = "."
    /\ \A i \in 1..(Len(text) - 1) : i # Len(text) - 3 => IsDigit(text[i])

\* the value cells of the lines labelled by one of `labels`
ValuesOf(lines, labels) ==
    { lines[i][2] : i \in {j \in 1..Len(lines) :
                             lines[j] # << >> /\ lines[j][1][1] \in labels} }

\* C4: in an exported file the average engagement rate and every series
\* value are written with exactly two decimals and a percent sign, and every
\* count is written as a plain integer.
C4_ExportFormatting ==
    download # Null
    => /\ \A v \in ValuesOf(download[1].lines,
                            {"avg_engagement"}
                            \cup {SeriesLabels(Exported)[i] :
                                    i \in 1..Len(SeriesLabels(Exported))}) :
             IsPercentage(v)
       /\ \A v \in ValuesOf(download[1].lines,
                            {"total_posts", "total_impressions",
                             "follower_count", "total_likes",
                             "total_comments"}) :
             IsPlainInteger(v)


\* C5: when an analysis request that passed validation fails, an error is
\* alerted, the results section is hidden afterwards and the stored result
\* is what it was.
C5_FailureShowsNothing ==
    [][ (event'.op = "analyzeSettled" /\ event'.outcome # "ok")
        => /\ alerts' = << "analysis_error" >>
           /\ resultsSection' = "none"
           /\ currentAnalysisData' = currentAnalysisData ]_vars

\* C6: a step of one handleFormSubmit invocation, taken while another
\* invocation is awaiting its fetch before and after the step, leaves the
\* loading indicator, the results section, the stored result and the charts
\* as they were.
C6_NoSharedMutation ==
    [][ (/\ event'.op \in {"submit", "analyzeSettled"}
         /\ inFlight >= 1
         /\ inFlight' >= 1)
        => UNCHANGED <<loading, resultsSection, currentAnalysisData,
                       engagementChart, timingChart>> ]_vars

\* C7: what is shown or exported for a field computed as zero differs from
\* what is shown or exported for the field left unset.
C7_ZeroDiffersFromUnset ==
    /\ (event.op = "analyzeSettled" /\ event.outcome = "ok")
       => LET st == event.result[1].stats[1]
          IN  /\ st.total_posts = Num(0)
                 => textContent.totalPosts # TotalPostsText(Undefined)
              /\ st.avg_engagement = Num(0)
                 => textContent.avgEngagement # AvgEngagementText(Undefined)
              /\ st.total_impressions = Num(0)
                 => textContent.totalImpressions # FormattedText(Undefined)
              /\ st.follower_count = Num(0)
                 => textContent.followerCount # FormattedText(Undefined)
    /\ (event.op = "exportToCSV" /\ download # Null)
       => \A i \in 2..5 :
             LET st == currentAnalysisData[1].stats[1]
                 v  == << st.total_posts, st.avg_engagement,
                          st.total_impressions, st.follower_count >>[i - 1]
                 unset == CsvLines([currentAnalysisData[1] EXCEPT !.stats =
                              Some(MkStats(Undefined, Undefined, Undefined,
                                           Undefined, Undefined, Undefined))])
             IN  v = Num(0) => download[1].lines[i] # unset[i]

\* position of bucket i when the histogram is sorted by descending count,
\* ties by ascending hour
RankOf(h, i) ==
    1 + Cardinality({j \in 1..Len(h.labels) :
                       \/ h.values[j] > h.values[i]
                       \/ h.values[j] = h.values[i] /\ h.labels[j] < h.labels[i]})

IsTopEight(chart, h) ==
    /\ Len(chart.labels) = (IF Len(h.labels) < 8 THEN Len(h.labels) ELSE 8)
    /\ Len(chart.data) = Len(chart.labels)
    /\ \A k \in 1..Len(chart.labels) :
          \E i \in 1..Len(h.labels) : /\ RankOf(h, i) = k
                                      /\ chart.labels[k] = h.labels[i]
                                      /\ chart.data[k] = h.values[i]

\* C8: the timing chart built from a received timing_data shows at most 8
\* buckets, the 8 with the highest counts in descending order, ties by
\* ascending hour, and the stored result keeps the whole histogram.
C8_TimingChartTopEight ==
    /\ (/\ event.op = "analyzeSettled"
        /\ event.outcome = "ok"
        /\ event.result[1].timing_data # Null)
       => /\ timingChart # Null
          /\ IsTopEight(timingChart[1], event.result[1].timing_data[1])
          /\ currentAnalysisData[1].timing_data = event.result[1].timing_data
    /\ (/\ event.op = "DOMContentLoaded"
        /\ event.result # Null
        /\ event.result[1].timing_data # Null)
       => /\ timingChart # Null
          /\ IsTopEight(timingChart[1], event.result[1].timing_data[1])
          /\ currentData[1].timing_data = event.result[1].timing_data

InSeq(x, q) == \E i \in 1..Len(q) : q[i] = x

\* C9: a settled sheets export reports success, and opens the sheet, exactly
\* when the fetch resolved with an OK response whose body has success true;
\* otherwise it alerts an error and opens nothing; never both.
C9_SheetsOutcome ==
    event.op = "sheetsSettled"
    => LET r == event.result[1]
           good == /\ r.fetch = "resolved"
                   /\ r.ok
                   /\ r.json = "object"
                   /\ r.success = Some(TRUE)
       IN  /\ good => (alerts = << "sheets_saved" >> /\ opened = Some(r.sheet_url))
           /\ ~good => (alerts = << "sheets_error" >> /\ opened = Null)
           /\ ~(InSeq("sheets_saved", alerts) /\ InSeq("sheets_error", alerts))

\* a sheets export ended in an error on a response that was not OK
C9_Witness ==
    /\ event.op = "sheetsSettled"
    /\ event.result[1].fetch = "resolved"
    /\ ~event.result[1].ok
    /\ alerts = << "sheets_error" >>
    /\ opened = Null

\* C10: the stored result changes only when a successful analysis (or the
\* dashboard's load) stores the result it received, whole; every display and
\* export step leaves it as it was.  (A reload of the dashboard page is no
\* display or export step: it ends the page, and the script starts over
\* with nothing stored.)
C10_StoredResultImmutable ==
    [][ /\ currentAnalysisData' # currentAnalysisData
           => /\ event'.op = "analyzeSettled"
              /\ event'.outcome = "ok"
              /\ currentAnalysisData' = event'.result
        /\ currentData' # currentData
           => \/ /\ event'.op = "DOMContentLoaded"
                 /\ currentData' = event'.result
              \/ /\ event'.op = "load"
                 /\ ~ready'
                 /\ currentData' = Null ]_vars

\* a file was exported from a stored result that has a series and a histogram
C10_Witness ==
    /\ event.op = "exportToCSV"
    /\ download # Null
    /\ currentAnalysisData # Null
    /\ currentAnalysisData[1].engagement_data # Null
    /\ currentAnalysisData[1].timing_data # Null


\* the rows an invocation of generatePostData fills the table with, when
\* Math.random answers with `draws`
GeneratedRows(draws) ==
    [i \in 1..Len(sampleTitles) |-> TableRow(GeneratedPost(i, draws[i]))]

\* C11: generatePostData is deterministic: the posts the table was just
\* filled with (status, engagement, likes, comments, date, performance) are
\* the posts every invocation on the same current data returns.
C11_GeneratorDeterministic ==
    (event.op = "DOMContentLoaded" /\ currentData # Null)
    => \A draws \in PostDraws : dataTable = GeneratedRows(draws)


\* C12: a handleFormSubmit invocation that showed the loading indicator
\* hides it when its fetch settles, whatever the outcome, and while an
\* invocation is between showLoading and the display of its result the
\* results section is not visible.
C12_LoadingHiddenResultsHeld ==
    [][ /\ event'.op = "analyzeSettled" => loading' = "none"
        /\ inFlight' > 0 => resultsSection' = "none" ]_vars

\* what a chart holds is the series it was built from
ChartShows(chart, series) ==
    /\ series # Null
    /\ chart[1].labels = series[1].labels
    /\ chart[1].data = series[1].values

\* C13: while the results section is visible, every live chart was built
\* from the stored result, the one displayed last.
C13_ChartsFromStoredResult ==
    (resultsSection = "block" /\ currentAnalysisData # Null)
    => /\ engagementChart # Null
          => ChartShows(engagementChart, currentAnalysisData[1].engagement_data)
       /\ timingChart # Null
          => ChartShows(timingChart, currentAnalysisData[1].timing_data)

====
